---- MODULE Spec2Model ----
(***************************************************************************)
(* NanoBV<T>: a value of an unsigned backing type T (u8/u16/u32/u64)       *)
(* tagged with a logical bit length (src/lib.rs).                          *)
(*                                                                         *)
(* An unsigned integer of n bytes (u8, u16, u32, u64, usize, u128) is      *)
(* modelled as the sequence of its n bytes, least significant first, so    *)
(* that 32, 64 and 128 bit values are exact and a value carries its type's *)
(* width.  Arithmetic is built from steps on single bytes.                 *)
(***************************************************************************)
EXTENDS Integers, FiniteSets, Sequences

(***************************************************************************)
(* Bounds of the model (sizes of the input samples).                       *)
(***************************************************************************)
\* the raw values 0..MaxRaw (and the backing type's MAX) are tried
MaxRaw == 1
\* the lengths 1..MaxLen (and BIT_SIZE) are tried as operand lengths
MaxLen == 1

(***************************************************************************)
(* Unsigned integers as byte sequences, least significant byte first.      *)
(***************************************************************************)
\* 2^n for 0 <= n <= 30
pow2 == <<2, 4, 8, 16, 32, 64, 128, 256, 512, 1024, 2048, 4096, 8192, 16384, 32768,
          65536, 131072, 262144, 524288, 1048576, 2097152, 4194304, 8388608,
          16777216, 33554432, 67108864, 134217728, 268435456, 536870912, 1073741824>>
Pow2(n) == IF n = 0 THEN 1 ELSE pow2[n]

\* bit i of the integer b
BitOf(b, i) == (b \div Pow2(i)) % 2

\* a AND b for 4-bit a and b, tabulated, and for bytes
AndTable ==
    [a \in 0..15 |-> [b \in 0..15 |->
        BitOf(a, 0) * BitOf(b, 0) + 2 * BitOf(a, 1) * BitOf(b, 1)
        + 4 * BitOf(a, 2) * BitOf(b, 2) + 8 * BitOf(a, 3) * BitOf(b, 3)]]
And8(a, b) == 16 * AndTable[a \div 16][b \div 16] + AndTable[a % 16][b % 16]

\* the byte b with its 8 bits in reverse order, tabulated
Rev8 ==
    [b \in 0..255 |->
        128 * BitOf(b, 0) + 64 * BitOf(b, 1) + 32 * BitOf(b, 2) + 16 * BitOf(b, 3)
        + 8 * BitOf(b, 4) + 4 * BitOf(b, 5) + 2 * BitOf(b, 6) + BitOf(b, 7)]

\* a function on 1..n as a sequence value (TLC then holds it as a tuple of
\* its values instead of re-evaluating the expression at each use)
Bytes(f) == f \o <<>>

\* the integer literal k (0 <= k < 2^30) as an n-byte integer
Lit(k, n) == Bytes([i \in 1..n |-> IF i <= 4 THEN (k \div Pow2(8 * (i - 1))) % 256 ELSE 0])

\* the largest n-byte integer
AllOnes(n) == Bytes([i \in 1..n |-> 255])

\* the value of X as a TLA+ integer, for X below 2^24
Val(X) ==
    X[1] + (IF Len(X) >= 2 THEN 256 * X[2] ELSE 0) + (IF Len(X) >= 3 THEN 65536 * X[3] ELSE 0)

\* X zero-extended or truncated to n bytes: an `as` cast between unsigned types
Resize(X, n) == Bytes([i \in 1..n |-> IF i <= Len(X) THEN X[i] ELSE 0])

\* bit i of X (0 = least significant)
Bit(X, i) == BitOf(X[(i \div 8) + 1], i % 8)

BitAnd(X, Y) == Bytes([i \in 1..Len(X) |-> And8(X[i], Y[i])])
BitOr(X, Y) == Bytes([i \in 1..Len(X) |-> X[i] + Y[i] - And8(X[i], Y[i])])
BitXor(X, Y) == Bytes([i \in 1..Len(X) |-> X[i] + Y[i] - 2 * And8(X[i], Y[i])])
BitNot(X) == Bytes([i \in 1..Len(X) |-> 255 - X[i]])

\* X << s and X >> s within the width of X, for 0 <= s
ShiftLeft(X, s) ==
    LET q == s \div 8
        r == s % 8
    IN  Bytes([i \in 1..Len(X) |->
            ((IF i - q >= 1 THEN X[i - q] * Pow2(r) ELSE 0) % 256)
            + (IF i - q - 1 >= 1 THEN X[i - q - 1] \div Pow2(8 - r) ELSE 0)])

ShiftRight(X, s) ==
    LET q == s \div 8
        r == s % 8
    IN  Bytes([i \in 1..Len(X) |->
            (IF i + q <= Len(X) THEN X[i + q] \div Pow2(r) ELSE 0)
            + ((IF i + q + 1 <= Len(X) THEN X[i + q + 1] * Pow2(8 - r) ELSE 0) % 256)])

ReverseBits(X) == Bytes([i \in 1..Len(X) |-> Rev8[X[Len(X) + 1 - i]]])

\* X < Y for integers of the same width
LessThan(X, Y) ==
    \E i \in 1..Len(X) : X[i] < Y[i] /\ \A j \in (i + 1)..Len(X) : X[j] = Y[j]

\* X + Y + c byte by byte from byte i on; the carry out is the last byte
RECURSIVE AddFrom(_, _, _, _)
AddFrom(X, Y, i, c) ==
    IF i > Len(X) THEN <<c>>
    ELSE LET s == X[i] + Y[i] + c IN <<s % 256>> \o AddFrom(X, Y, i + 1, s \div 256)

\* the exact sum of two n-byte integers, as n + 1 bytes
WideAdd(X, Y) == AddFrom(X, Y, 1, 0)

\* X - Y modulo 2^(8n): X + (2^(8n) - 1 - Y) + 1 with the carry out dropped
WrapSub(X, Y) == SubSeq(AddFrom(X, BitNot(Y), 1, 1), 1, Len(X))

\* column k of the schoolbook product: the sum of X[i] * Y[k + 1 - i]
RECURSIVE ColFrom(_, _, _, _)
ColFrom(X, Y, k, i) ==
    IF i > Len(X) \/ i > k THEN 0
    ELSE (IF k + 1 - i <= Len(Y) THEN X[i] * Y[k + 1 - i] ELSE 0) + ColFrom(X, Y, k, i + 1)

RECURSIVE MulFrom(_, _, _, _)
MulFrom(X, Y, k, c) ==
    IF k > 2 * Len(X) THEN <<>>
    ELSE LET s == ColFrom(X, Y, k, 1) + c IN <<s % 256>> \o MulFrom(X, Y, k + 1, s \div 256)

\* the exact product of two n-byte integers, as 2n bytes
WideMul(X, Y) == MulFrom(X, Y, 1, 0)

\* the position of the highest 1 bit of X, or -1 for X = 0
TopBit(X) ==
    LET S == {i \in 1..Len(X) : X[i] # 0} IN
    IF S = {} THEN -1
    ELSE LET m == CHOOSE i \in S : \A j \in S : j <= i
         IN  8 * (m - 1) + CHOOSE b \in 0..7 : X[m] \div Pow2(b) = 1

\* long division, one bit of the dividend X per step from bit i down, with
\* the divisor Y # 0 and the remainder R one byte wider than X; st holds
\* X, Y, i and the quotient Q and remainder R so far
DivFrom[st \in [X : Seq(Nat), Y : Seq(Nat), i : Int, Q : Seq(Nat), R : Seq(Nat)]] ==
    IF st.i < 0 THEN st
    ELSE LET R1 == [ShiftLeft(st.R, 1) EXCEPT ![1] = @ + Bit(st.X, st.i)] IN
         IF LessThan(R1, st.Y)
         THEN DivFrom[[st EXCEPT !.i = @ - 1, !.R = R1]]
         ELSE DivFrom[[st EXCEPT !.i = @ - 1,
                                 !.Q[(st.i \div 8) + 1] = @ + Pow2(st.i % 8),
                                 !.R = WrapSub(R1, st.Y)]]

\* <<X div Y, X mod Y>> for n-byte integers, Y # 0.  The quotient has no bit
\* above k = TopBit(X) - TopBit(Y), so the division starts at bit k with the
\* bits of X above it (a value below Y) as the remainder.
DivMod(X, Y) ==
    LET n == Len(X)
        k == TopBit(X) - TopBit(Y)
        d == DivFrom[[X |-> X, Y |-> Resize(Y, n + 1), i |-> k,
                      Q |-> Lit(0, n), R |-> Resize(ShiftRight(X, k + 1), n + 1)]]
    IN  IF k < 0 THEN <<Lit(0, n), X>> ELSE <<d.Q, Resize(d.R, n)>>

(***************************************************************************)
(* The build and the values in play.                                       *)
(***************************************************************************)
VARIABLES
    size_of,          \* size_of::<$type>() of the instantiation: 1, 2, 4 or 8 bytes
    overflow_checks,  \* whether the build panics on integer overflow (debug) or wraps
    pointer_width,    \* bits of usize on the target
    operands,         \* the vectors the caller has built and holds
    bv,               \* the receiver: one of them
    op,               \* the operation applied last ("none": not yet)
    args,             \* its arguments
    ret               \* what it returned, or that it panicked

vars == <<size_of, overflow_checks, pointer_width, operands, bv, op, args, ret>>

\* ImplNanoBVCommon!(for u8, u16, u32, u64)
Types == {1, 2, 4, 8}
\* target_pointer_width of the targets rustc knows
PointerWidths == {16, 32, 64}

BIT_SIZE == size_of * 8
MAX == AllOnes(size_of)
MIN == Lit(0, size_of)
\* a literal of the backing type, and of usize
T(k) == Lit(k, size_of)
Usize(k) == Lit(k, pointer_width \div 8)
\* size_of::<u128>()
U128 == 16

\* outcomes of a call
Panic == [kind |-> "panic", data |-> <<>>, length |-> 0]
NanoBV(data, length) == [kind |-> "bv", data |-> data, length |-> length]
Scalar(data) == [kind |-> "int", data |-> data, length |-> 0]
NoRet == [kind |-> "none", data |-> <<>>, length |-> 0]

(***************************************************************************)
(* The operators of the backing type.  An overflowing +, -, *, << or >>    *)
(* panics when the build checks overflow and wraps (a shift: masks its     *)
(* amount) when it does not; / and % by zero always panic.                 *)
(***************************************************************************)
Checked(overflow, v) == [panic |-> overflow_checks /\ overflow, value |-> v]

prim_add(x, y) ==
    LET s == WideAdd(x, y) IN Checked(s[size_of + 1] # 0, Resize(s, size_of))

prim_sub(x, y) == Checked(LessThan(x, y), WrapSub(x, y))

prim_mul(x, y) ==
    LET p == WideMul(x, y) IN
    Checked(\E i \in (size_of + 1)..(2 * size_of) : p[i] # 0, Resize(p, size_of))

\* a division that yields 0 for a zero divisor instead of panicking
prim_div_total(x, y) ==
    IF y = T(0) THEN [panic |-> FALSE, value |-> T(0)]
    ELSE [panic |-> FALSE, value |-> DivMod(x, y)[1]]

prim_div(x, y) ==
    IF y = T(0) THEN [panic |-> TRUE, value |-> T(0)]
    ELSE [panic |-> FALSE, value |-> DivMod(x, y)[1]]

prim_rem(x, y) ==
    IF y = T(0) THEN [panic |-> TRUE, value |-> T(0)]
    ELSE [panic |-> FALSE, value |-> DivMod(x, y)[2]]

\* the shift amount a wrapping shift uses: y & (BIT_SIZE - 1)
ShiftAmount(y) == y[1] % BIT_SIZE

prim_shl(x, y) == Checked(y # T(ShiftAmount(y)), ShiftLeft(x, ShiftAmount(y)))

prim_shr(x, y) == Checked(y # T(ShiftAmount(y)), ShiftRight(x, ShiftAmount(y)))

prim_bitand(x, y) == [panic |-> FALSE, value |-> BitAnd(x, y)]
prim_bitor(x, y) == [panic |-> FALSE, value |-> BitOr(x, y)]
prim_bitxor(x, y) == [panic |-> FALSE, value |-> BitXor(x, y)]
prim_not(x) == BitNot(x)
reverse_bits(x) == ReverseBits(x)

\* `offset as usize`: zero-extension or truncation to the target's pointer width
as_usize(x) == Resize(x, pointer_width \div 8)

(***************************************************************************)
(* internals                                                               *)
(***************************************************************************)
\* the longer of the two lengths
min_longer(a, b) == <<a, b>>[(IF a >= b THEN 0 ELSE 1) + 1]

min(a, b) == <<a, b>>[(IF a >= b THEN 1 ELSE 0) + 1]

(***************************************************************************)
(* ImplNanoBVCommon                                                        *)
(***************************************************************************)
\* the mask without the arm for length = BIT_SIZE: the shift wraps its amount
upper_bound_shift_only(length) ==
    WrapSub(ShiftLeft(T(1), length % BIT_SIZE), T(1))

upper_bound(length) ==
    IF length < BIT_SIZE
    THEN WrapSub(ShiftLeft(T(1), length), T(1))
    ELSE MAX

\* a constructor that stores data as given
new_unmasked(data, length) ==
    IF (length < 1) \/ (length > BIT_SIZE) THEN Panic
    ELSE NanoBV(data, length)

\* a constructor that clamps length into 1..BIT_SIZE
new_clamped(data, length) ==
    LET n == IF length < 1 THEN 1 ELSE IF length > BIT_SIZE THEN BIT_SIZE ELSE length
    IN  NanoBV(BitAnd(data, upper_bound(n)), n)

new(data, length) ==
    IF (length < 1) \/ (length > BIT_SIZE) THEN Panic
    ELSE NanoBV(BitAnd(data, upper_bound(length)), length)

default == new(MIN, BIT_SIZE)

len(self) == self.length

value(self) == self.data

set_value(self, v) ==
    LET new_value == BitAnd(v, upper_bound(self.length)) IN new(new_value, len(self))

zeros(length) ==
    IF (length < 1) \/ (length > BIT_SIZE) THEN Panic ELSE new(T(0), length)

ones(length) ==
    IF (length < 1) \/ (length > BIT_SIZE) THEN Panic
    ELSE new(upper_bound(length), length)

clear(self) == zeros(len(self))

set(self) == ones(len(self))

\* ["Invalid offset provided."][(offset as usize >= self.len()) as usize]
InvalidOffset(self, offset) == ~LessThan(as_usize(offset), Usize(len(self)))

get_bit(self, offset) ==
    IF InvalidOffset(self, offset) THEN Panic
    ELSE LET s == prim_shr(self.data, offset) IN
         IF s.panic THEN Panic ELSE Scalar(BitAnd(s.value, T(1)))

set_bit(self, offset) ==
    IF InvalidOffset(self, offset) THEN Panic
    ELSE LET s == prim_shl(T(1), offset) IN
         IF s.panic THEN Panic
         ELSE LET new_value == BitOr(self.data, BitAnd(s.value, upper_bound(self.length))) IN
              new(new_value, len(self))

\* a clear_bit that toggles the bit
clear_bit_toggle(self, offset) ==
    IF InvalidOffset(self, offset) THEN Panic
    ELSE LET s == prim_shl(T(1), offset) IN
         IF s.panic THEN Panic
         ELSE LET new_value == BitXor(self.data, s.value) IN
              new(new_value, len(self))

clear_bit(self, offset) ==
    IF InvalidOffset(self, offset) THEN Panic
    ELSE LET s == prim_shl(T(1), offset) IN
         IF s.panic THEN Panic
         ELSE LET new_value == BitAnd(self.data, prim_not(s.value)) IN
              new(new_value, len(self))

assign_bit(self, v, offset) ==
    IF InvalidOffset(self, offset) THEN Panic
    ELSE IF v = T(0) THEN clear_bit(self, offset) ELSE set_bit(self, offset)

\* a reverse that leaves the reversed word where reverse_bits puts it
reverse_unshifted(self) == new(reverse_bits(self.data), len(self))

reverse(self) ==
    LET reversed == reverse_bits(self.data)
        s == prim_shr(reversed, T(BIT_SIZE - len(self)))
    IN  IF s.panic THEN Panic ELSE new(s.value, len(self))

\* new(<lhs op rhs>, min(self.len(), rhs.len())) for the result r of the operator
Method(self, rhs, r) ==
    IF r.panic THEN Panic ELSE new(r.value, min(len(self), len(rhs)))

bvadd(self, rhs) == Method(self, rhs, prim_add(self.data, rhs.data))
bvand(self, rhs) == Method(self, rhs, prim_bitand(self.data, rhs.data))
bvor(self, rhs) == Method(self, rhs, prim_bitor(self.data, rhs.data))
bvxor(self, rhs) == Method(self, rhs, prim_bitxor(self.data, rhs.data))
bvdiv(self, rhs) == Method(self, rhs, prim_div(self.data, rhs.data))
bvmul(self, rhs) == Method(self, rhs, prim_mul(self.data, rhs.data))
bvrem(self, rhs) == Method(self, rhs, prim_rem(self.data, rhs.data))
bvshl(self, rhs) == Method(self, rhs, prim_shl(self.data, rhs.data))
bvshr(self, rhs) == Method(self, rhs, prim_shr(self.data, rhs.data))
bvsub(self, rhs) == Method(self, rhs, prim_sub(self.data, rhs.data))

(***************************************************************************)
(* ImplNanoBVOps: the operator traits                                      *)
(***************************************************************************)
\* TryInto<u128> for the backing type and TryFrom<u128> back into it
try_into(x) == [ok |-> TRUE, value |-> Resize(x, U128)]
try_from(x) ==
    IF \A i \in (size_of + 1)..U128 : x[i] = 0
    THEN [ok |-> TRUE, value |-> Resize(x, size_of)]
    ELSE [ok |-> FALSE, value |-> <<>>]
\* Result::unwrap_or_default for a result of n bytes
unwrap_or_default(r, n) == IF r.ok THEN r.value ELSE Lit(0, n)

\* (1u128 << length) - 1
Mask128(length) == WrapSub(ShiftLeft(Lit(1, U128), length), Lit(1, U128))

\* self.data.$function(other.data).try_into().unwrap_or_default() & mask
Widen(r, length) ==
    BitAnd(unwrap_or_default(try_into(r.value), U128), Mask128(length))

\* an operator that narrows the backing-type result without masking it
ImplNanoBVOps_unmasked(self, other, r) ==
    LET length == min(len(self), len(other)) IN
    IF r.panic THEN Panic
    ELSE IF length = 0 THEN Panic ELSE NanoBV(r.value, length)

\* fn $function(self, other) for the result r of self.data.$function(other.data)
ImplNanoBVOps(self, other, r) ==
    LET length == min(len(self), len(other)) IN
    IF r.panic THEN Panic
    ELSE LET data == unwrap_or_default(try_from(Widen(r, length)), size_of)
         IN  IF length = 0 THEN Panic ELSE NanoBV(data, length)

add(self, other) == ImplNanoBVOps(self, other, prim_add(self.data, other.data))
bitand(self, other) == ImplNanoBVOps(self, other, prim_bitand(self.data, other.data))
bitor(self, other) == ImplNanoBVOps(self, other, prim_bitor(self.data, other.data))
bitxor(self, other) == ImplNanoBVOps(self, other, prim_bitxor(self.data, other.data))
div(self, other) == ImplNanoBVOps(self, other, prim_div(self.data, other.data))
mul(self, other) == ImplNanoBVOps(self, other, prim_mul(self.data, other.data))
rem(self, other) == ImplNanoBVOps(self, other, prim_rem(self.data, other.data))
shl(self, other) == ImplNanoBVOps(self, other, prim_shl(self.data, other.data))
shr(self, other) == ImplNanoBVOps(self, other, prim_shr(self.data, other.data))
sub(self, other) == ImplNanoBVOps(self, other, prim_sub(self.data, other.data))

(***************************************************************************)
(* Inputs tried.                                                           *)
(***************************************************************************)
\* raw values of the backing type: the smallest and the largest
RawSamples == {T(k) : k \in 0..MaxRaw} \cup {MAX}

\* new(0x1D, 7), new(0x071F, 13), new(0xFF, 8), new(0x0F, 4)
Examples == {<<29, 7>>, <<1823, 13>>, <<255, 8>>, <<15, 4>>}

\* valid lengths: the shortest and the longest
LenSamples == {n \in 1..BIT_SIZE : n <= MaxLen \/ n = BIT_SIZE}

\* lengths handed to a constructor: those, BIT_SIZE - 1, and the invalid
\* 0 and BIT_SIZE + 1..BIT_SIZE + MaxLen
LenArgs == LenSamples \cup {0, BIT_SIZE - 1} \cup {BIT_SIZE + k : k \in 1..MaxLen}

\* the vectors the caller builds: new(raw, n) of the samples, and the
\* operands of the documented examples
Operands ==
    {new(raw, n) : raw \in RawSamples, n \in LenSamples}
    \cup {new(T(e[1]), e[2]) : e \in {x \in Examples : x[2] <= BIT_SIZE}}

\* bit offsets (of the backing type): around the length and the width, the
\* largest, and some that differ from a small one only above bit 16 or 32
OffsetSamples(self) ==
    {T(k) : k \in {0, 1, len(self) - 1, len(self), BIT_SIZE - 1, BIT_SIZE}}
    \cup {MAX}
    \cup {[T(k) EXCEPT ![3] = 1] : k \in {j \in 0..MaxRaw : size_of > 2}}
    \cup {[T(k) EXCEPT ![5] = 1] : k \in {j \in 0..MaxRaw : size_of > 4}}

\* values handed to assign_bit
BitValues == {T(k) : k \in 0..(MaxRaw + 1)}

NoArgs == [other |-> NoRet, offset |-> <<>>, value |-> <<>>, length |-> 0]

(***************************************************************************)
(* One action per operation of the crate: the caller applies it to the     *)
(* vector it holds and receives the result.                                *)
(***************************************************************************)
Call(name, a, r) ==
    /\ op = "none"
    /\ op' = name
    /\ args' = a
    /\ ret' = r
    /\ UNCHANGED <<size_of, overflow_checks, pointer_width, operands, bv>>

DoNew ==
    \E raw \in RawSamples, n \in LenArgs :
        Call("new", [NoArgs EXCEPT !.value = raw, !.length = n], new(raw, n))
DoDefault == Call("default", NoArgs, default)
DoZeros == \E n \in LenArgs : Call("zeros", [NoArgs EXCEPT !.length = n], zeros(n))
DoOnes == \E n \in LenArgs : Call("ones", [NoArgs EXCEPT !.length = n], ones(n))
DoLen == Call("len", NoArgs, Scalar(Usize(len(bv))))
DoValue == Call("value", NoArgs, Scalar(value(bv)))
DoSetValue ==
    \E v \in RawSamples : Call("set_value", [NoArgs EXCEPT !.value = v], set_value(bv, v))
DoClear == Call("clear", NoArgs, clear(bv))
DoSet == Call("set", NoArgs, set(bv))
DoGetBit ==
    \E o \in OffsetSamples(bv) : Call("get_bit", [NoArgs EXCEPT !.offset = o], get_bit(bv, o))
DoSetBit ==
    \E o \in OffsetSamples(bv) : Call("set_bit", [NoArgs EXCEPT !.offset = o], set_bit(bv, o))
DoClearBit ==
    \E o \in OffsetSamples(bv) :
        Call("clear_bit", [NoArgs EXCEPT !.offset = o], clear_bit(bv, o))
DoAssignBit ==
    \E v \in BitValues, o \in OffsetSamples(bv) :
        Call("assign_bit", [NoArgs EXCEPT !.value = v, !.offset = o], assign_bit(bv, v, o))
DoReverse == Call("reverse", NoArgs, reverse(bv))

DoBvAdd == \E rhs \in operands : Call("bvadd", [NoArgs EXCEPT !.other = rhs], bvadd(bv, rhs))
DoBvAnd == \E rhs \in operands : Call("bvand", [NoArgs EXCEPT !.other = rhs], bvand(bv, rhs))
DoBvOr == \E rhs \in operands : Call("bvor", [NoArgs EXCEPT !.other = rhs], bvor(bv, rhs))
DoBvXor == \E rhs \in operands : Call("bvxor", [NoArgs EXCEPT !.other = rhs], bvxor(bv, rhs))
DoBvDiv == \E rhs \in operands : Call("bvdiv", [NoArgs EXCEPT !.other = rhs], bvdiv(bv, rhs))
DoBvMul == \E rhs \in operands : Call("bvmul", [NoArgs EXCEPT !.other = rhs], bvmul(bv, rhs))
DoBvRem == \E rhs \in operands : Call("bvrem", [NoArgs EXCEPT !.other = rhs], bvrem(bv, rhs))
DoBvShl == \E rhs \in operands : Call("bvshl", [NoArgs EXCEPT !.other = rhs], bvshl(bv, rhs))
DoBvShr == \E rhs \in operands : Call("bvshr", [NoArgs EXCEPT !.other = rhs], bvshr(bv, rhs))
DoBvSub == \E rhs \in operands : Call("bvsub", [NoArgs EXCEPT !.other = rhs], bvsub(bv, rhs))

DoAdd == \E rhs \in operands : Call("add", [NoArgs EXCEPT !.other = rhs], add(bv, rhs))
DoBitAnd == \E rhs \in operands : Call("bitand", [NoArgs EXCEPT !.other = rhs], bitand(bv, rhs))
DoBitOr == \E rhs \in operands : Call("bitor", [NoArgs EXCEPT !.other = rhs], bitor(bv, rhs))
DoBitXor == \E rhs \in operands : Call("bitxor", [NoArgs EXCEPT !.other = rhs], bitxor(bv, rhs))
DoDiv == \E rhs \in operands : Call("div", [NoArgs EXCEPT !.other = rhs], div(bv, rhs))
DoMul == \E rhs \in operands : Call("mul", [NoArgs EXCEPT !.other = rhs], mul(bv, rhs))
DoRem == \E rhs \in operands : Call("rem", [NoArgs EXCEPT !.other = rhs], rem(bv, rhs))
DoShl == \E rhs \in operands : Call("shl", [NoArgs EXCEPT !.other = rhs], shl(bv, rhs))
DoShr == \E rhs \in operands : Call("shr", [NoArgs EXCEPT !.other = rhs], shr(bv, rhs))
DoSub == \E rhs \in operands : Call("sub", [NoArgs EXCEPT !.other = rhs], sub(bv, rhs))

\* The caller goes on with a vector it was returned (here: when it is one of
\* those it holds, which keeps the values in play finite).
Bind ==
    /\ op # "none"
    /\ ret \in operands
    /\ bv' = ret
    /\ op' = "none"
    /\ args' = NoArgs
    /\ ret' = NoRet
    /\ UNCHANGED <<size_of, overflow_checks, pointer_width, operands>>

Init ==
    /\ size_of \in Types
    /\ overflow_checks \in BOOLEAN
    /\ pointer_width \in PointerWidths
    /\ operands = Operands
    /\ bv \in operands
    /\ op = "none"
    /\ args = NoArgs
    /\ ret = NoRet

Next ==
    \/ DoNew \/ DoDefault \/ DoZeros \/ DoOnes
    \/ DoLen \/ DoValue \/ DoSetValue \/ DoClear \/ DoSet
    \/ DoGetBit \/ DoSetBit \/ DoClearBit \/ DoAssignBit \/ DoReverse
    \/ DoBvAdd \/ DoBvAnd \/ DoBvOr \/ DoBvXor \/ DoBvDiv
    \/ DoBvMul \/ DoBvRem \/ DoBvShl \/ DoBvShr \/ DoBvSub
    \/ DoAdd \/ DoBitAnd \/ DoBitOr \/ DoBitXor \/ DoDiv
    \/ DoMul \/ DoRem \/ DoShl \/ DoShr \/ DoSub
    \/ Bind

Spec == Init /\ [][Next]_vars

(***************************************************************************)
(* Properties.  They are stated on the state after a call: bv is the       *)
(* receiver, args the arguments, ret the outcome.                          *)
(***************************************************************************)
\* the positions of the 1 bits of X
Bits(X) == {i \in 0..(8 * Len(X) - 1) : Bit(X, i) = 1}

\* X modulo 2^n
LowBits(X, n) ==
    Bytes([i \in 1..Len(X) |->
        IF 8 * i <= n THEN X[i]
        ELSE IF 8 * (i - 1) >= n THEN 0
        ELSE X[i] % Pow2(n - 8 * (i - 1))])

\* the shorter of the lengths of the receiver and of the other operand
MinLen == IF bv.length <= args.other.length THEN bv.length ELSE args.other.length

MethodOps ==
    {"bvadd", "bvand", "bvor", "bvxor", "bvdiv", "bvmul", "bvrem", "bvshl", "bvshr", "bvsub"}
TraitOps == {"add", "bitand", "bitor", "bitxor", "div", "mul", "rem", "shl", "shr", "sub"}
BinaryOps == MethodOps \cup TraitOps

\* v is a vector of a valid length with no bit at or above its length
Masked(v) ==
    /\ Len(v.data) = size_of
    /\ 1 <= v.length
    /\ v.length <= BIT_SIZE
    /\ LowBits(v.data, v.length) = v.data
    /\ BitAnd(v.data, upper_bound(v.length)) = v.data

\* C1: every vector the caller holds or is returned, by any operation that
\* does not fault and after any sequence of them, has 1 <= length <= BIT_SIZE
\* and data & upper_bound(length) = data: no bit at a position >= length is set.
C1_MaskingInvariant ==
    /\ Masked(bv)
    /\ ret.kind = "bv" => Masked(ret)

\* an operator masked a raw result that had a bit above the result's length
C1_Witness ==
    /\ op = "add"
    /\ ret.kind = "bv"
    /\ ret.length < bv.length
    /\ Bit(bv.data, ret.length) = 1
    /\ args.other.data = T(0)

\* C2: a binary operator that completes (method or trait form) returns a
\* vector of length min(lhs.length, rhs.length); and, or and xor complete on
\* every pair and return the bitwise result below that length and 0 above;
\* (0xFF, 8) & (0x0F, 4) is (0x0F, 4).
C2_LengthReconciliation ==
    /\ (op \in BinaryOps /\ ret.kind = "bv") => ret.length = MinLen
    /\ op \in {"bvand", "bitand", "bvor", "bitor", "bvxor", "bitxor"} =>
         /\ ret.kind = "bv"
         /\ ret.data = BitAnd(value(ret), upper_bound(MinLen))
         /\ \A i \in 0..(BIT_SIZE - 1) :
              LET a == Bit(bv.data, i)
                  b == Bit(args.other.data, i)
              IN  Bit(ret.data, i) =
                    IF i >= MinLen THEN 0
                    ELSE IF op \in {"bvand", "bitand"} THEN a * b
                    ELSE IF op \in {"bvor", "bitor"} THEN a + b - a * b
                    ELSE (a + b) % 2
    /\ (op \in {"bvand", "bitand"} /\ bv = NanoBV(T(255), 8)
                                   /\ args.other = NanoBV(T(15), 4)) =>
         ret = NanoBV(T(15), 4)

\* the documented example, through the operator
C2_Witness ==
    /\ op = "bitand"
    /\ bv = NanoBV(T(255), 8)
    /\ args.other = NanoBV(T(15), 4)
    /\ ret = NanoBV(T(15), 4)

\* the exact sum, difference or product of the operands' data modulo 2^n
ExactAdd(n) == LowBits(Resize(WideAdd(bv.data, args.other.data), size_of), n)
ExactSub(n) == LowBits(WrapSub(bv.data, args.other.data), n)
ExactMul(n) == LowBits(Resize(WideMul(bv.data, args.other.data), size_of), n)

\* C3: add, subtract and multiply (method and trait form) never fault, also
\* when the exact result does not fit the backing type, and return the exact
\* result modulo 2^min(lhs.length, rhs.length).
C3_WideArithmetic ==
    /\ op \in {"bvadd", "add"} => ret = NanoBV(ExactAdd(MinLen), MinLen)
    /\ op \in {"bvsub", "sub"} => ret = NanoBV(ExactSub(MinLen), MinLen)
    /\ op \in {"bvmul", "mul"} => ret = NanoBV(ExactMul(MinLen), MinLen)

\* C4: new, zeros and ones fault on a length of 0 or above BIT_SIZE; on a
\* length in 1..BIT_SIZE they return a vector of exactly that length, new
\* with the data raw & upper_bound(length), the raw value modulo 2^length.
C4_InvalidLengthRejected ==
    op \in {"new", "zeros", "ones"} =>
        IF args.length < 1 \/ args.length > BIT_SIZE
        THEN ret = Panic
        ELSE /\ ret.kind = "bv"
             /\ ret.length = args.length
             /\ op = "new" =>
                  /\ ret.data = BitAnd(args.value, upper_bound(args.length))
                  /\ ret.data = LowBits(args.value, args.length)

\* new was handed a length above BIT_SIZE and faulted
C4_Witness ==
    /\ op = "new"
    /\ args.length > BIT_SIZE
    /\ args.value = MAX
    /\ ret = Panic

\* the offset handed to the bit operation is below the receiver's length
OffsetInRange == LessThan(args.offset, T(bv.length))

\* C5: get_bit, set_bit, clear_bit and assign_bit fault on every offset >=
\* the vector's length; on every offset < length they complete, and get_bit
\* returns bit `offset` of the data, 0 or 1.
C5_OffsetChecked ==
    op \in {"get_bit", "set_bit", "clear_bit", "assign_bit"} =>
        IF OffsetInRange
        THEN /\ ret.kind # "panic"
             /\ op = "get_bit" => ret = Scalar(T(Bit(bv.data, Val(args.offset))))
        ELSE ret = Panic

\* the quotient q and remainder r of x by y # 0: q * y + r = x and r < y
IsDivMod(q, r, x, y) ==
    /\ LessThan(r, y)
    /\ WideAdd(WideMul(q, y), Resize(r, 2 * Len(x))) = Resize(x, 2 * Len(x) + 1)

\* C6: div and rem (method and trait form) fault when the right operand's
\* value is 0, whatever its length; otherwise they return a vector of length
\* min(lhs.length, rhs.length) holding floor(lhs / rhs), respectively
\* lhs mod rhs, modulo 2^that length.
C6_DivisionFault ==
    op \in {"bvdiv", "div", "bvrem", "rem"} =>
        IF args.other.data = T(0)
        THEN ret = Panic
        ELSE LET qr == DivMod(bv.data, args.other.data) IN
             /\ IsDivMod(qr[1], qr[2], bv.data, args.other.data)
             /\ ret.kind = "bv"
             /\ ret.length = MinLen
             /\ ret.data = LowBits(IF op \in {"bvdiv", "div"} THEN qr[1] ELSE qr[2], MinLen)

\* a remainder by a vector of more than one bit whose value is 0 faulted
C6_Witness ==
    /\ op = "rem"
    /\ args.other.data = T(0)
    /\ args.other.length > 1
    /\ bv.data # T(0)
    /\ ret = Panic

\* C7: reverse returns a vector of the same length L whose bit i, for i < L,
\* is bit L-1-i of the receiver and whose bits at L and above are 0: at
\* L = BIT_SIZE the full-word reversal; (0x1D, 7) gives (0x5C, 7) and
\* (0x071F, 13) gives (0x1F1C, 13).
C7_ReverseExact ==
    op = "reverse" =>
        /\ ret.kind = "bv"
        /\ ret.length = bv.length
        /\ \A i \in 0..(BIT_SIZE - 1) :
             Bit(ret.data, i) =
               IF i < bv.length THEN Bit(bv.data, bv.length - 1 - i) ELSE 0
        /\ bv.length = BIT_SIZE => ret.data = reverse_bits(bv.data)
        /\ bv = NanoBV(T(29), 7) => ret = NanoBV(T(92), 7)
        /\ bv = NanoBV(T(1823), 13) => ret = NanoBV(T(7964), 13)

\* the 13-bit example on a 16-bit backing type
C7_Witness ==
    /\ op = "reverse"
    /\ size_of = 2
    /\ bv = NanoBV(T(1823), 13)
    /\ ret = NanoBV(T(7964), 13)

\* C8: for an offset o < length, set_bit(o), clear_bit(o) and assign_bit(b, o)
\* with b in {0, 1} return a vector of the same length whose bit o is 1, 0
\* and b and whose other bits are the receiver's; get_bit(o) of the result
\* reads that bit back, and a second set_bit(o) or clear_bit(o) changes nothing.
C8_SingleBit ==
    (/\ op \in {"set_bit", "clear_bit", "assign_bit"}
     /\ OffsetInRange
     /\ op = "assign_bit" => args.value \in {T(0), T(1)}) =>
        LET o == Val(args.offset)
            b == IF op = "set_bit" THEN 1
                 ELSE IF op = "clear_bit" THEN 0 ELSE Val(args.value)
        IN  /\ ret.kind = "bv"
            /\ ret.length = bv.length
            /\ \A j \in 0..(BIT_SIZE - 1) :
                 Bit(ret.data, j) = IF j = o THEN b ELSE Bit(bv.data, j)
            /\ get_bit(ret, args.offset) = Scalar(T(b))
            /\ op = "set_bit" => set_bit(ret, args.offset) = ret
            /\ op = "clear_bit" => clear_bit(ret, args.offset) = ret

\* clear_bit was applied to a bit that was already 0, below another that is 1
C8_Witness ==
    /\ op = "clear_bit"
    /\ OffsetInRange
    /\ Bit(bv.data, Val(args.offset)) = 0
    /\ bv.data # T(0)
    /\ ret = bv

\* C9: for a length in 1..BIT_SIZE, zeros(length) is (0, length) and
\* ones(length) is (upper_bound(length), length) with exactly the bits below
\* length set, the backing type's MAX at length = BIT_SIZE; default() is
\* zeros(BIT_SIZE); clear() is zeros(len()) and set() is ones(len()).
C9_ZerosOnes ==
    /\ (op = "zeros" /\ args.length \in 1..BIT_SIZE) => ret = NanoBV(T(0), args.length)
    /\ (op = "ones" /\ args.length \in 1..BIT_SIZE) =>
         /\ ret = NanoBV(upper_bound(args.length), args.length)
         /\ Bits(ret.data) = 0..(args.length - 1)
         /\ args.length = BIT_SIZE => ret.data = MAX
    /\ op = "default" => (ret = zeros(BIT_SIZE) /\ ret = NanoBV(T(0), BIT_SIZE))
    /\ op = "clear" => (ret = zeros(len(bv)) /\ ret = NanoBV(T(0), bv.length))
    /\ op = "set" =>
         /\ ret = ones(len(bv))
         /\ ret.kind = "bv"
         /\ ret.length = bv.length
         /\ Bits(ret.data) = 0..(bv.length - 1)

\* ones of the full width returned the backing type's MAX
C9_Witness ==
    /\ op = "ones"
    /\ args.length = BIT_SIZE
    /\ ret = NanoBV(MAX, BIT_SIZE)

\* the backing-type result the operation named computes on the operands
Result(name) ==
    LET x == bv.data
        y == args.other.data
    IN  CASE name \in {"add", "bvadd"} -> prim_add(x, y)
          [] name \in {"bitand", "bvand"} -> prim_bitand(x, y)
          [] name \in {"bitor", "bvor"} -> prim_bitor(x, y)
          [] name \in {"bitxor", "bvxor"} -> prim_bitxor(x, y)
          [] name \in {"div", "bvdiv"} -> prim_div(x, y)
          [] name \in {"mul", "bvmul"} -> prim_mul(x, y)
          [] name \in {"rem", "bvrem"} -> prim_rem(x, y)
          [] name \in {"shl", "bvshl"} -> prim_shl(x, y)
          [] name \in {"shr", "bvshr"} -> prim_shr(x, y)
          [] name \in {"sub", "bvsub"} -> prim_sub(x, y)

\* the outcome of the other form of the operation named, on the same operands
OtherForm(name) ==
    LET a == bv
        b == args.other
    IN  CASE name = "add" -> bvadd(a, b)       [] name = "bvadd" -> add(a, b)
          [] name = "bitand" -> bvand(a, b)    [] name = "bvand" -> bitand(a, b)
          [] name = "bitor" -> bvor(a, b)      [] name = "bvor" -> bitor(a, b)
          [] name = "bitxor" -> bvxor(a, b)    [] name = "bvxor" -> bitxor(a, b)
          [] name = "div" -> bvdiv(a, b)       [] name = "bvdiv" -> div(a, b)
          [] name = "mul" -> bvmul(a, b)       [] name = "bvmul" -> mul(a, b)
          [] name = "rem" -> bvrem(a, b)       [] name = "bvrem" -> rem(a, b)
          [] name = "shl" -> bvshl(a, b)       [] name = "bvshl" -> shl(a, b)
          [] name = "shr" -> bvshr(a, b)       [] name = "bvshr" -> shr(a, b)
          [] name = "sub" -> bvsub(a, b)       [] name = "bvsub" -> sub(a, b)

\* C10: on every pair of vectors the operator-trait form and the bv* method
\* form of each of the ten binary operators both fault or return the same
\* vector, and neither conversion of the trait form (into u128, back from
\* u128) fails, so its default of 0 is never taken.
C10_FormsAgree ==
    op \in BinaryOps =>
        /\ ret.kind \in {"bv", "panic"}
        /\ ret = OtherForm(op)
        /\ (op \in TraitOps /\ ret.kind = "bv") =>
             /\ try_into(Result(op).value).ok
             /\ try_from(Widen(Result(op), MinLen)).ok

\* a product that does not fit the backing type, in a build that wraps, from
\* operands of different lengths
C10_Witness ==
    /\ op = "mul"
    /\ ~overflow_checks
    /\ bv.length # args.other.length
    /\ \E i \in (size_of + 1)..(2 * size_of) : WideMul(bv.data, args.other.data)[i] # 0
    /\ ret.kind = "bv"
    /\ ret = bvmul(bv, args.other)

====
